---- MODULE Spec2Model ----
(***************************************************************************)
(* The message coordinator of conduit-mcp's server side                    *)
(* (src/conduit/server/coordinator.py) as a state machine over asyncio's   *)
(* cooperative scheduler: one step of the model is one uninterrupted run   *)
(* of a task or callback between two suspension points.  A task that ends  *)
(* has its done-callbacks scheduled, not run: they are steps of their own. *)
(* The Client Manager and the Message Parser are collaborators whose code  *)
(* is outside the sources at hand; they follow their documented contract.  *)
(***************************************************************************)
EXTENDS Naturals, Sequences, FiniteSets, TLC

\* ------------------------------------------------------------------ bounds
\* the inputs of one run: start() calls that create a loop task, messages
\* the transport stream yields, send_request / send_notification calls that
\* pass the running check
MaxInputs == 3

\* ------------------------------------------------------------ environment
Clients == {"A", "B"}
ReqIds == {1, 2}
\* methods the parser's registry knows
ParserMethods == {"tools/list", "ping"}
\* methods the session registered a request handler for
RequestHandlers == {"tools/list"}
Methods == ParserMethods \cup {"does/not/exist"}
\* notification methods the parser's registry knows
ParserNotifications ==
    {"notifications/cancelled", "notifications/initialized",
     "notifications/progress"}
\* methods the session registered a notification handler for
NotificationHandlers == {"notifications/cancelled", "notifications/initialized"}
NotificationMethods == ParserNotifications \cup {"notifications/bogus"}
LoopIds == 1..MaxInputs

\* the request id send_request draws for its i-th accepted call (a fresh uuid)
Uuid(i) == 100 + i

VARIABLES
    loopTask,   \* self._message_loop_task: 0 is None, else a loop task
    lt,         \* the loop tasks ever created: LoopIds -> record
    clients,    \* client manager: the registered clients
    inb,        \* client manager: per client, requests from the client
    outb,       \* client manager: per client, requests to the client
    h,          \* the handler tasks ever created, by creation order
    calls,      \* the send_request invocations that got past the running check
    nt,         \* the notification handler tasks that have not run yet:
                \* how many there are per (client, method, request id named)
    nIn,        \* the inputs so far
    ev,         \* what the last step showed at the coordinator's interfaces:
                \* the call or return of an operation, the frame handed to
                \* transport.send
    \* the client session and its initialize()
    initializing,         \* session._initializing: "none" or "task"
    initialize_result,    \* session._initialize_result: None or the result
    session_running,      \* session._running
    pending_requests,     \* session._pending_requests: the ids awaited
    transport_closed,     \* transport.closed
    client_sent_messages, \* transport.client_sent_messages: the methods
    init_task,            \* the task that runs the handshake
    init_calls,           \* the invocations of initialize(), per caller
    server_messages,      \* the replies the server has sent
    delivered,            \* how many of them the session has received
    \* the protocol types: one conversion there and back
    p_dir,      \* what is at hand: "wire" (a wire object), "value",
                \* "server_request" (the type of a request of the server)
    p_in,       \* the wire object or the value to start from
    p_mid,      \* what from_protocol / to_protocol made of it
    p_out,      \* what the conversion back made of that
    p_step      \* the conversions done

\* the coordinator's variables
cvars == <<loopTask, lt, clients, inb, outb, h, calls, nt, nIn, ev>>

\* the client session's variables
svars == <<initializing, initialize_result, session_running, pending_requests,
           transport_closed, client_sent_messages, init_task, init_calls,
           server_messages, delivered>>

\* the variables of the protocol types
pvars == <<p_dir, p_in, p_mid, p_out, p_step>>

vars == <<cvars, svars, pvars, pvars>>

\* a JSON-RPC frame for client c: its id, and for an error its code, message
\* and data (the id of the request the data holds, 0 for no data)
Frame(c, kind, id, code, msg, data) ==
    [c |-> c, kind |-> kind, id |-> id, code |-> code, msg |-> msg,
     data |-> data]
NoFrame == Frame("", "none", 0, "", "", 0)

\* op, who, out: the operation that ran in the step (who: its handler task,
\* its send_request call or its loop task) and what came of it; frame: the
\* frame the step handed to transport.send, if any; c: the client of a routed
\* request, whose id is who and whose method is out
Ev(op, who, out, f) ==
    [op |-> op, c |-> "", who |-> who, out |-> out, frame |-> f]
ReqEv(c, rid, method, f) ==
    [op |-> "request", c |-> c, who |-> rid, out |-> method, frame |-> f]
\* the same for another kind of inbound message or a call made for client c
MsgEv(op, c, id, out, f) ==
    [op |-> op, c |-> c, who |-> id, out |-> out, frame |-> f]
Internal == Ev("internal", 0, "", NoFrame)

\* ----------------------------------------------------------------- loop task
NewLoop == [st |-> "unborn", cancel |-> FALSE, stopw |-> FALSE]
LoopAlive(t) == lt[t].st \in {"next", "send"}

\* the running property: a loop task is set and it is not done
Running == loopTask # 0 /\ LoopAlive(loopTask)

\* ------------------------------------------------------------ client manager
\* The manager's state as one value, so that a step that calls several of its
\* operations composes them in the order of the code.
CM == [clients |-> clients, inb |-> inb, outb |-> outb, h |-> h, calls |-> calls]

SetCM(m) ==
    /\ clients' = m.clients
    /\ inb' = m.inb
    /\ outb' = m.outb
    /\ h' = m.h
    /\ calls' = m.calls

LiveSt == {"run", "send", "errsend"}

\* a task that ended and whose done-callback, if any, has run
Gone == [c |-> "", rid |-> 0, st |-> "fin", res |-> "none", code |-> "",
         cb |-> FALSE]

\* the task is over: its done-callback, if one was added, is scheduled
Ended(task) ==
    IF task.cb THEN [task EXCEPT !.st = "done", !.res = "none", !.code = ""]
    ELSE Gone

\* task.cancel() on each task of S: a task that is not done yet ends cancelled
\* at its suspension point; a task that is done is left alone
CancelTasks(hs, S) ==
    [k \in DOMAIN hs |->
        IF k \in S /\ hs[k].st \in LiveSt THEN Ended(hs[k]) ELSE hs[k]]

\* the completion handles of the calls in S are resolved with v; a handle
\* that is resolved already is left alone
ResolveFutures(cs, S, v) ==
    [i \in DOMAIN cs |->
        IF i \in S /\ cs[i].fut = "pending"
        THEN [cs[i] EXCEPT !.fut = v]
        ELSE cs[i]]

TasksOf(entries) == {e.task : e \in entries}

GetClient(m, c) == c \in m.clients

RegisterClient(m, c) == [m EXCEPT !.clients = @ \cup {c}]

HasRequestFromClient(m, c, rid) == \E e \in m.inb[c] : e.rid = rid

TrackRequestFromClient(m, c, rid, k) ==
    [m EXCEPT !.inb[c] = @ \cup {[rid |-> rid, task |-> k]}]

UntrackRequestFromClient(m, c, rid) ==
    [m EXCEPT !.inb[c] = {e \in @ : e.rid # rid}]

TrackRequestToClient(m, c, i) == [m EXCEPT !.outb[c] = @ \cup {i}]

UntrackRequestToClient(m, c, i) == [m EXCEPT !.outb[c] = @ \ {i}]

GetRequestToClient(m, c, rid) == {i \in m.outb[c] : Uuid(i) = rid}

ResolveRequestToClient(m, c, i, v) ==
    [m EXCEPT !.outb[c] = @ \ {i},
              !.calls = ResolveFutures(@, {i}, v)]

CleanupClient(m, c) ==
    [m EXCEPT !.h = CancelTasks(@, TasksOf(m.inb[c])),
              !.calls = ResolveFutures(@, m.outb[c], "cancel_error"),
              !.inb[c] = {},
              !.outb[c] = {},
              !.clients = @ \ {c}]

RECURSIVE CleanupSet(_, _)
CleanupSet(m, S) ==
    IF S = {} THEN m
    ELSE LET c == CHOOSE x \in S : TRUE
         IN  CleanupSet(CleanupClient(m, c), S \ {c})

CleanupAllClients(m) == CleanupSet(m, m.clients)

\* ------------------------------------------------------------------ lifecycle
\* start() without its running check
StartNeverNoop == FALSE

\* start(): a no-op while running, else a new loop task with its done-callback
StartIsNoop == Running

Start ==
    IF StartIsNoop
    THEN UNCHANGED vars
    ELSE /\ nIn < MaxInputs
         /\ \E t \in LoopIds :
              /\ lt[t].st = "unborn"
              /\ \A u \in LoopIds : u < t => lt[u].st # "unborn"
              /\ loopTask' = t
              /\ lt' = [lt EXCEPT ![t].st = "next"]
         /\ nIn' = nIn + 1
         /\ ev' = Internal
         /\ UNCHANGED <<clients, inb, outb, h, calls, nt, svars, pvars>>

\* stop(): a no-op unless running; else cancel the loop task and await it
StopIsNoop == ~Running

Stop ==
    /\ IF StopIsNoop
       THEN /\ UNCHANGED lt
            /\ ev' = Ev("stop", 0, "returned", NoFrame)
       ELSE /\ loopTask # 0
            /\ lt' = [lt EXCEPT ![loopTask].cancel = TRUE,
                                ![loopTask].stopw = TRUE]
            /\ ev' = Internal
    /\ UNCHANGED <<loopTask, clients, inb, outb, h, calls, nt, svars, pvars, nIn>>

\* the rest of stop() once the awaited loop task is done
StopAfterAwait(s) ==
    [loopTask |-> 0, cm |-> CleanupAllClients(s.cm)]

\* _on_message_loop_done without its cleanup
LoopDoneWithoutCleanup(s) == [loopTask |-> 0, cm |-> s.cm]

\* _on_message_loop_done
OnMessageLoopDone(s) ==
    [loopTask |-> 0, cm |-> CleanupAllClients(s.cm)]

\* the cancelled loop task runs once more: CancelledError leaves _message_loop
LoopCancelled(t) ==
    /\ LoopAlive(t)
    /\ lt[t].cancel
    /\ lt' = [lt EXCEPT ![t].st = "done"]
    /\ ev' = Internal
    /\ UNCHANGED <<loopTask, clients, inb, outb, h, calls, nt, svars, pvars, nIn>>

\* where _message_loop is after the transport stream raised or ended
AfterStream(how) == "done"

StreamEnds(t, how) ==
    /\ lt[t].st = "next"
    /\ ~lt[t].cancel
    /\ lt' = [lt EXCEPT ![t].st = AfterStream(how)]
    /\ ev' = Ev("stream", t, "ended", NoFrame)
    /\ UNCHANGED <<loopTask, clients, inb, outb, h, calls, nt, svars, pvars, nIn>>

\* the done-callbacks of a finished loop task, in the order they were added:
\* _on_message_loop_done, then the stop() calls awaiting the task
LoopDoneCallbacks(t) ==
    /\ lt[t].st = "done"
    /\ LET s0 == [loopTask |-> loopTask, cm |-> CM]
           s1 == OnMessageLoopDone(s0)
           s2 == IF lt[t].stopw THEN StopAfterAwait(s1) ELSE s1
       IN  /\ loopTask' = s2.loopTask
           /\ SetCM(s2.cm)
    /\ lt' = [lt EXCEPT ![t].st = "fin", ![t].stopw = FALSE]
    /\ ev' = IF lt[t].stopw THEN Ev("stop", t, "returned", NoFrame)
             ELSE Internal
    /\ UNCHANGED <<nt, svars, pvars, nIn>>

\* ------------------------------------------------------------ inbound routing
Payload(kind, id, method, body) ==
    [kind |-> kind, id |-> id, method |-> method, body |-> body]

\* what the transport stream may yield next
Payloads ==
    {Payload("request", id, m, "") : id \in ReqIds, m \in Methods}
    \cup {Payload("response", Uuid(i), "", b) :
            i \in 1..Len(calls), b \in {"result", "error"}}
    \cup {Payload("notification", id, "notifications/cancelled", "") :
            id \in ReqIds}
    \cup {Payload("notification", 0, m, "") :
            m \in NotificationMethods \ {"notifications/cancelled"}}
    \cup {Payload("unknown", 0, "", "")}

\* parser.parse_request: the typed request, or the Error to answer with
ParseRequest(method) ==
    IF method \in ParserMethods THEN "ok" ELSE "METHOD_NOT_FOUND"

\* parser.parse_response: a Result, or an Error for an error-shaped frame
ParseResponse(p) == p.body

\* _ensure_client_registered
EnsureClientRegistered(m, c) ==
    IF GetClient(m, c) THEN m ELSE RegisterClient(m, c)

\* self._request_handlers.get(request.method)
HasHandler(method) == method \in RequestHandlers

\* asyncio.create_task(self._execute_request_handler(...))
NewHandlerTask(c, rid) ==
    [c |-> c, rid |-> rid, st |-> "run", res |-> "none", code |-> "",
     cb |-> FALSE]

\* _send_error builds the JSON-RPC error for the request id
ErrorFrame(c, rid, code, msg, data) == Frame(c, "error", rid, code, msg, data)

\* the Error _route_request answers with when the method has no handler
NoHandlerError(c, rid) ==
    ErrorFrame(c, rid, "METHOD_NOT_FOUND", "No handler for method", 0)

\* a _message_loop that an exception of _route_client_message ends
LoopDiesOnRoutingError == "done"

\* where the loop task is after _route_client_message raised: the exception
\* is caught and logged, and the loop goes on with the next message
AfterRoutingError == "next"

\* _route_request, the loop task being t
RouteRequest(t, c, rid, method, m1) ==
    IF ~HasHandler(method)
    THEN /\ ev' = ReqEv(c, rid, method, NoHandlerError(c, rid))
         /\ lt' = [lt EXCEPT ![t].st = "send"]
         /\ SetCM(m1)
    ELSE LET k == Len(m1.h) + 1
             m2 == [m1 EXCEPT !.h = Append(@, NewHandlerTask(c, rid))]
         IN  IF HasRequestFromClient(m2, c, rid)
             THEN \* track_request_from_client fails: the task exists and
                  \* will run, no done-callback is added, and the error
                  \* is caught and logged by _message_loop
                  /\ SetCM(m2)
                  /\ ev' = ReqEv(c, rid, method, NoFrame)
                  /\ lt' = [lt EXCEPT ![t].st = AfterRoutingError]
             ELSE /\ SetCM(TrackRequestFromClient(
                              [m2 EXCEPT !.h[k].cb = TRUE], c, rid, k))
                  /\ ev' = ReqEv(c, rid, method, NoFrame)
                  /\ UNCHANGED lt

\* _handle_request
HandleRequest(t, c, p) ==
    LET m1 == EnsureClientRegistered(CM, c)
    IN  IF ParseRequest(p.method) # "ok"
        THEN /\ ev' = ReqEv(c, p.id, p.method,
                            ErrorFrame(c, p.id, ParseRequest(p.method),
                                       "parser", 0))
             /\ lt' = [lt EXCEPT ![t].st = "send"]
             /\ SetCM(m1)
        ELSE RouteRequest(t, c, p.id, p.method, m1)

\* _handle_response
\* a lookup of the pending request under the id alone, whoever sent the frame
ResponseWaitersOfAnyClient(m, c, id) ==
    UNION {GetRequestToClient(m, d, id) : d \in m.clients}

\* get_request_to_client(client_id, payload["id"]): the pending requests that
\* a response frame from c with this id is matched to
ResponseWaiters(m, c, id) ==
    IF GetClient(m, c) THEN GetRequestToClient(m, c, id) ELSE {}

\* _handle_response that sets the value on the handle whatever its state
HandleResponseOverwrites(t, c, p) ==
    LET S == ResponseWaiters(CM, c, p.id)
    IN  IF S = {}
        THEN /\ UNCHANGED <<clients, inb, outb, h, calls>>
             /\ ev' = Internal
        ELSE LET i == CHOOSE x \in S : TRUE
                 m1 == UntrackRequestToClient(CM, c, i)
             IN  /\ SetCM([m1 EXCEPT !.calls[i].fut = ParseResponse(p)])
                 /\ ev' = MsgEv("response", c, p.id, ParseResponse(p),
                                NoFrame)

\* _handle_response: no pending request under (client_id, id): logged and
\* dropped; else the parsed frame resolves the handle of that entry
HandleResponse(t, c, p) ==
    LET S == ResponseWaiters(CM, c, p.id)
    IN  IF S = {}
        THEN /\ UNCHANGED <<clients, inb, outb, h, calls>>
             /\ ev' = Internal
        ELSE LET i == CHOOSE x \in S : TRUE
             IN  /\ SetCM(ResolveRequestToClient(CM, c, i, ParseResponse(p)))
                 /\ ev' = MsgEv("response", c, p.id, ParseResponse(p),
                                NoFrame)

\* parser.parse_notification: the typed notification, or None
ParseNotification(method) ==
    IF method \in ParserNotifications THEN "ok" ELSE "none"

\* self._notification_handlers.get(method)
HasNotificationHandler(method) == method \in NotificationHandlers

\* the notification handler tasks there can be
NKeys ==
    {<<c, "notifications/cancelled", id>> : c \in Clients, id \in ReqIds}
    \cup {<<c, m, 0>> : c \in Clients,
                        m \in NotificationHandlers \ {"notifications/cancelled"}}

\* _handle_notification that answers an unknown method as requests are
NotificationAnswersUnknown(c, p) ==
    IF ParseNotification(p.method) = "ok" THEN NoFrame
    ELSE ErrorFrame(c, p.id, "METHOD_NOT_FOUND", "Unknown method", 0)

\* what _handle_notification hands to the transport: it never sends
NotificationFrame(c, p) == NoFrame

\* _handle_notification: a notification the parser does not know or that has
\* no handler is dropped; else asyncio.create_task(handler(...)), detached
HandleNotification(c, p) ==
    /\ nt' = IF ParseNotification(p.method) = "ok"
                 /\ HasNotificationHandler(p.method)
             THEN [nt EXCEPT ![<<c, p.method, p.id>>] = @ + 1]
             ELSE nt
    /\ ev' = MsgEv("notification", c, p.id, p.method, NotificationFrame(c, p))
    /\ UNCHANGED <<clients, inb, outb, h, calls>>

\* The runs are taken up to the names of clients and request ids: the first
\* client a run involves is called "A", and the first request id that a
\* handler task or a cancellation carries is 1.
NoClientYet == nIn = Cardinality({t \in LoopIds : lt[t].st # "unborn"})

NoIdYet == h = <<>> /\ \A x \in NKeys : nt[x] = 0

Canonical(c, p) ==
    /\ NoClientYet => c = "A"
    /\ (p.kind = "request" /\ HasHandler(p.method) /\ NoIdYet) => p.id = 1
    /\ (p.kind = "notification" /\ p.method = "notifications/cancelled"
           /\ NoIdYet) => p.id = 1

\* a message that _route_client_message handles without any effect: a
\* payload of no known kind, a response to no pending request
Dropped(c, p) ==
    \/ p.kind = "unknown"
    \/ /\ p.kind = "response"
       /\ ResponseWaiters(CM, c, p.id) = {}

\* a loop that takes the next message while the routing of the last one is
\* still suspended
LoopReadsWhileRouting(t) == lt[t].st \in {"next", "send"}

\* async for in _message_loop: the loop task asks the stream for the next
\* message only when the awaited _route_client_message is over
LoopReadsNext(t) == lt[t].st = "next"

\* one turn of _message_loop: the stream yields (c, p) and
\* _route_client_message runs up to its first suspension or its end; only a
\* message that changes something counts as an input
Deliver(t, c, p) ==
    /\ LoopReadsNext(t)
    /\ ~lt[t].cancel
    /\ IF Dropped(c, p)
       THEN UNCHANGED vars
       ELSE /\ nIn < MaxInputs
            /\ Canonical(c, p)
            /\ nIn' = nIn + 1
            /\ CASE p.kind = "request" ->
                        HandleRequest(t, c, p) /\ UNCHANGED <<nt, svars, pvars>>
                 [] p.kind = "response" ->
                        HandleResponse(t, c, p) /\ UNCHANGED <<lt, nt, svars, pvars>>
                 [] p.kind = "notification" ->
                        HandleNotification(c, p) /\ UNCHANGED <<lt, svars, pvars>>
            /\ UNCHANGED loopTask

\* a _message_loop that a failed transport.send of an error response ends
LoopDiesOnSendFailure(ok) == IF ok THEN "next" ELSE "done"

\* where the loop task is after transport.send of an error response returned
\* (ok) or raised: _message_loop catches what _route_client_message raises
AfterLoopSend(ok) == "next"

LoopSendDone(t, ok) ==
    /\ lt[t].st = "send"
    /\ ~lt[t].cancel
    /\ lt' = [lt EXCEPT ![t].st = AfterLoopSend(ok)]
    /\ ev' = Internal
    /\ UNCHANGED <<loopTask, clients, inb, outb, h, calls, nt, svars, pvars, nIn>>

\* ------------------------------------------------------------- handler tasks
\* _should_disconnect_for_error
ShouldDisconnectForError(code) == code = "PROTOCOL_VERSION_MISMATCH"

\* the codes of the Errors a handler may return
ErrorCodes == {"PROTOCOL_VERSION_MISMATCH", "INVALID_PARAMS"}

\* handler tasks that run one after the other, in the order of arrival
TaskWaitsForEarlier(k) == \A j \in 1..(k - 1) : h[j].st \notin LiveSt

\* asyncio.create_task in _route_request: the loop awaits no handler task, so
\* a task runs whenever the event loop picks it, whatever the others do
TaskMayRun(k) == TRUE

\* the handler returns a Result: the response is handed to transport.send
HandlerReturnsResult(k) ==
    /\ h[k].st = "run"
    /\ TaskMayRun(k)
    /\ h' = [h EXCEPT ![k].st = "send", ![k].res = "result"]
    /\ ev' = Ev("handler", k, "returned",
                Frame(h[k].c, "response", h[k].rid, "", "", 0))
    /\ UNCHANGED <<loopTask, lt, clients, inb, outb, calls, nt, svars, pvars, nIn>>

\* the handler returns an Error: it is handed to transport.send as it is
HandlerReturnsError(k, code) ==
    /\ h[k].st = "run"
    /\ TaskMayRun(k)
    /\ h' = [h EXCEPT ![k].st = "send", ![k].res = "error", ![k].code = code]
    /\ ev' = Ev("handler", k, "returned",
                ErrorFrame(h[k].c, h[k].rid, code, "handler", 0))
    /\ UNCHANGED <<loopTask, lt, clients, inb, outb, calls, nt, svars, pvars, nIn>>

\* an INTERNAL_ERROR response that does not carry the request
InternalErrorWithoutData(k) ==
    ErrorFrame(h[k].c, h[k].rid, "INTERNAL_ERROR", "Problem handling request",
               0)

\* the Error of the except branch of _execute_request_handler; its data
\* holds the request
InternalError(k) ==
    ErrorFrame(h[k].c, h[k].rid, "INTERNAL_ERROR", "Problem handling request",
               h[k].rid)

\* the handler raises
HandlerRaises(k) ==
    /\ h[k].st = "run"
    /\ TaskMayRun(k)
    /\ h' = [h EXCEPT ![k].st = "errsend"]
    /\ ev' = Ev("handler", k, "raised", InternalError(k))
    /\ UNCHANGED <<loopTask, lt, clients, inb, outb, calls, nt, svars, pvars, nIn>>

\* a disconnect after the response that tears every client down
AfterResponseSentDropsAll(m, k) ==
    IF m.h[k].res = "error" /\ ShouldDisconnectForError(m.h[k].code)
    THEN LET m1 == CleanupAllClients(m)
         IN  IF m1.h[k].st \in LiveSt
             THEN [m1 EXCEPT !.h[k] = Ended(@)]
             ELSE m1
    ELSE [m EXCEPT !.h[k] = Ended(@)]

\* what follows the send of the response in _execute_request_handler; a task
\* that cancels itself through cleanup_client ends cancelled when it returns
AfterResponseSent(m, k) ==
    IF m.h[k].res = "error" /\ ShouldDisconnectForError(m.h[k].code)
    THEN LET m1 == CleanupClient(m, m.h[k].c)
         IN  IF m1.h[k].st \in LiveSt
             THEN [m1 EXCEPT !.h[k] = Ended(@)]
             ELSE m1
    ELSE [m EXCEPT !.h[k] = Ended(@)]

\* transport.send of the response returns
HandlerSendDone(k) ==
    /\ h[k].st = "send"
    /\ SetCM(AfterResponseSent(CM, k))
    /\ ev' = Ev("handler", k, "sent", NoFrame)
    /\ UNCHANGED <<loopTask, lt, nt, svars, pvars, nIn>>

\* transport.send of the response raises: the except branch answers
HandlerSendFails(k) ==
    /\ h[k].st = "send"
    /\ h' = [h EXCEPT ![k].st = "errsend", ![k].res = "none", ![k].code = ""]
    /\ ev' = Ev("handler", k, "send_failed", InternalError(k))
    /\ UNCHANGED <<loopTask, lt, clients, inb, outb, calls, nt, svars, pvars, nIn>>

\* transport.send of the INTERNAL_ERROR response returns or raises
HandlerErrSendDone(k, ok) ==
    /\ h[k].st = "errsend"
    /\ h' = [h EXCEPT ![k] = Ended(@)]
    /\ ev' = Ev("handler", k, "error_sent", NoFrame)
    /\ UNCHANGED <<loopTask, lt, clients, inb, outb, calls, nt, svars, pvars, nIn>>

\* the done-callback added in _route_request
HandlerDoneCallback(k) ==
    /\ h[k].st = "done"
    /\ SetCM([UntrackRequestFromClient(CM, h[k].c, h[k].rid)
                 EXCEPT !.h[k] = Gone])
    /\ ev' = Internal
    /\ UNCHANGED <<loopTask, lt, nt, svars, pvars, nIn>>

\* ------------------------------------------------ cancel_request_from_client
\* cancel_request_from_client that pops the entry and cancels nothing
CancelWithoutCancelling(m, c, rid) ==
    [cm |-> UntrackRequestFromClient(m, c, rid),
     ok |-> \E e \in m.inb[c] : e.rid = rid /\ m.h[e.task].st \in LiveSt]

\* cancel_request_from_client that returns True whenever it found an entry
CancelReturnsFound(m, c, rid) ==
    [cm |-> [UntrackRequestFromClient(m, c, rid)
               EXCEPT !.h = CancelTasks(@, {e.task : e \in
                                   {x \in m.inb[c] : x.rid = rid}})],
     ok |-> \E e \in m.inb[c] : e.rid = rid]

\* cancel_request_from_client: the manager state after it and what it
\* returns; task.cancel() is False for a task that is done
CancelRequestFromClient(m, c, rid) ==
    LET es == {e \in m.inb[c] : e.rid = rid}
    IN  IF es = {}
        THEN [cm |-> m, ok |-> FALSE]
        ELSE LET k == (CHOOSE e \in es : TRUE).task
                 m1 == UntrackRequestFromClient(m, c, rid)
             IN  [cm |-> [m1 EXCEPT !.h = CancelTasks(@, {k})],
                  ok |-> m.h[k].st \in LiveSt]

\* the session's handler for notifications/cancelled: it routes the request
\* id the notification names to cancel_request_from_client
CancelledHandler(m, c, rid) == CancelRequestFromClient(m, c, rid)

\* what the coordinator sees of a notification handler task that returned or
\* raised: the task is detached, nothing awaits it and it has no done-callback
NotificationTaskEnd(raises) == IF raises THEN "raised" ELSE "returned"

\* a notification handler task runs: the handler for notifications/cancelled
\* calls cancel_request_from_client, another handler returns or raises
NotificationHandlerRuns(c, method, id, raises) ==
    /\ nt[<<c, method, id>>] > 0
    /\ nt' = [nt EXCEPT ![<<c, method, id>>] = @ - 1]
    /\ IF method = "notifications/cancelled"
       THEN LET r == CancelledHandler(CM, c, id)
            IN  /\ ~raises
                /\ SetCM(r.cm)
                /\ ev' = MsgEv("cancel", c, id,
                               IF r.ok THEN "true" ELSE "false", NoFrame)
       ELSE /\ UNCHANGED <<clients, inb, outb, h, calls>>
            /\ ev' = MsgEv("nhandler", c, id, NotificationTaskEnd(raises),
                           NoFrame)
    /\ UNCHANGED <<loopTask, lt, nIn, svars, pvars>>

\* ------------------------------------------------------------- send_request
NewCall(c) == [c |-> c, st |-> "sending", fut |-> "pending"]

\* a send_request call that is over
Over == [c |-> "", st |-> "done", fut |-> "released"]

CancelledNotification(c, i) ==
    Frame(c, "notification", Uuid(i), "", "notifications/cancelled", 0)

\* send_request leaving without its finally clause
ExitWithoutUntrack(m, i) == [m EXCEPT !.calls[i] = Over]

\* the finally clause of send_request, and the call is over
ExitSendRequest(m, i) ==
    [UntrackRequestToClient(m, m.calls[i].c, i) EXCEPT !.calls[i] = Over]

\* send_request and send_notification without their running check
NeverRefuses == FALSE

\* the running check of send_request and send_notification
RefusesToSend == ~Running

\* _handle_request_timeout that sends no notification
TimeoutNeverNotifies == FALSE

\* whether _handle_request_timeout hands a CancelledNotification to
\* transport.send: send_notification raises when not running, and
\* _handle_request_timeout swallows what it raises
TimeoutNotifies == ~RefusesToSend

\* send_request up to its first suspension: the running check, the tracking
\* and the request handed to transport.send
SendRequest(c) ==
    IF RefusesToSend
    THEN /\ ev' = Ev("send_request", 0, "not_running", NoFrame)
         /\ UNCHANGED <<loopTask, lt, clients, inb, outb, h, calls, nt, svars, pvars, nIn>>
    ELSE /\ nIn < MaxInputs
         /\ NoClientYet => c = "A"
         /\ LET i == Len(calls) + 1
                m1 == EnsureClientRegistered(
                          [CM EXCEPT !.calls = Append(@, NewCall(c))], c)
            IN  /\ SetCM(TrackRequestToClient(m1, c, i))
                /\ ev' = Ev("send_request", i, "accepted",
                            Frame(c, "request", Uuid(i), "", "", 0))
         /\ nIn' = nIn + 1
         /\ UNCHANGED <<loopTask, lt, nt, svars, pvars>>

\* transport.send of the request returns: the call awaits the handle
SendRequestSent(i) ==
    /\ calls[i].st = "sending"
    /\ calls' = [calls EXCEPT ![i].st = "waiting"]
    /\ ev' = Internal
    /\ UNCHANGED <<loopTask, lt, clients, inb, outb, h, nt, svars, pvars, nIn>>

\* transport.send of the request raises: the error reaches the caller
SendRequestSendFails(i) ==
    /\ calls[i].st = "sending"
    /\ SetCM(ExitSendRequest(CM, i))
    /\ ev' = Ev("send_request", i, "raised_send_error", NoFrame)
    /\ UNCHANGED <<loopTask, lt, nt, svars, pvars, nIn>>

\* what send_request returns once the handle is resolved with v
Returned(v) == v

\* the handle was resolved: wait_for returns its value to the caller
SendRequestReturns(i) ==
    /\ calls[i].st = "waiting"
    /\ calls[i].fut \in {"result", "error", "cancel_error"}
    /\ SetCM(ExitSendRequest(CM, i))
    /\ ev' = Ev("send_request", i, Returned(calls[i].fut), NoFrame)
    /\ UNCHANGED <<loopTask, lt, nt, svars, pvars, nIn>>

\* wait_for times out: the handle is cancelled and _handle_request_timeout
\* runs up to the send of the CancelledNotification; send_notification
\* raises when the coordinator is not running, which is caught and logged,
\* and the timeout error is raised to the caller
SendRequestTimeout(i) ==
    /\ calls[i].st = "waiting"
    /\ calls[i].fut = "pending"
    /\ LET m1 == [CM EXCEPT !.calls[i].fut = "cancelled"]
       IN  IF TimeoutNotifies
           THEN /\ SetCM([m1 EXCEPT !.calls[i].st = "tnotify"])
                /\ ev' = Ev("send_request", i, "timed_out",
                            CancelledNotification(calls[i].c, i))
           ELSE /\ SetCM(ExitSendRequest(m1, i))
                /\ ev' = Ev("send_request", i, "raised_timeout", NoFrame)
    /\ UNCHANGED <<loopTask, lt, nt, svars, pvars, nIn>>

\* transport.send of the CancelledNotification returns or raises (a failure
\* is logged): the timeout error is raised to the caller
SendRequestTimeoutRaised(i) ==
    /\ calls[i].st = "tnotify"
    /\ SetCM(ExitSendRequest(CM, i))
    /\ ev' = Ev("send_request", i, "raised_timeout", NoFrame)
    /\ UNCHANGED <<loopTask, lt, nt, svars, pvars, nIn>>

\* the task that called send_request is cancelled while suspended in it
CallerCancelled(i) ==
    /\ calls[i].st \in {"sending", "waiting", "tnotify"}
    /\ SetCM(ExitSendRequest(CM, i))
    /\ ev' = Ev("send_request", i, "cancelled", NoFrame)
    /\ UNCHANGED <<loopTask, lt, nt, svars, pvars, nIn>>

\* ---------------------------------------------------------- send_notification
SendNotification(c) ==
    IF RefusesToSend
    THEN /\ ev' = Ev("send_notification", 0, "not_running", NoFrame)
         /\ UNCHANGED <<loopTask, lt, clients, inb, outb, h, calls, nt, svars, pvars, nIn>>
    ELSE /\ nIn < MaxInputs
         /\ NoClientYet => c = "A"
         /\ ev' = Ev("send_notification", 0, "accepted",
                     Frame(c, "notification", 0, "", "user", 0))
         /\ nIn' = nIn + 1
         /\ UNCHANGED <<loopTask, lt, clients, inb, outb, h, calls, nt, svars, pvars>>

\* ------------------------------------------- client session: initialize()
\* initialize() of the client session, after section 4.5 of the
\* specification and the states the initialization tests observe.

\* the tasks that call initialize()
Callers == {1, 2, 3}

\* the version the client supports, and the versions a server may answer with
PROTOCOL_VERSION == "V"
Versions == {PROTOCOL_VERSION, "NOT_A_VERSION"}

\* the id of the initialize request (uuid4 is mocked to "0" in the tests)
InitId == "0"

\* the n-th reply of the server: an InitializeResult with its own identity
InitializeResult(v, n) == [protocolVersion |-> v, n |-> n, err |-> ""]

\* None, and the error a failed handshake raises
NoResult == [protocolVersion |-> "", n |-> 0, err |-> ""]
InitError(e) == [protocolVersion |-> "", n |-> 0, err |-> e]

NoTask == [st |-> "none", val |-> NoResult]
NewCaller == [pc |-> "idle", res |-> NoResult]

CountSent(method) ==
    Cardinality({k \in DOMAIN client_sent_messages :
                    client_sent_messages[k] = method})

\* initialize() that starts a handshake whenever no result is cached
StartsHandshakeUnlessCached == initialize_result = NoResult

\* initialize() starts the handshake only when no result is cached and no
\* handshake is in progress
StartsHandshake == initialize_result = NoResult /\ initializing = "none"

\* a version check that accepts every version
AnyVersionMatches(result) == TRUE

\* the check of the result's protocolVersion
VersionMatches(result) == result.protocolVersion = PROTOCOL_VERSION

\* initialize(): a cached result is returned at once; a call during a
\* handshake awaits the shared task; else the call creates the task and
\* awaits it. No call is made on a session that was torn down.
Initialize(u) ==
    /\ init_calls[u].pc = "idle"
    /\ ~transport_closed
    /\ IF StartsHandshake
       THEN /\ initializing' = "task"
            /\ init_task' = [st |-> "new", val |-> NoResult]
            /\ init_calls' = [init_calls EXCEPT ![u].pc = "owner"]
       ELSE IF initialize_result # NoResult
       THEN /\ init_calls' = [init_calls EXCEPT
                                 ![u] = [pc |-> "returned",
                                         res |-> initialize_result]]
            /\ UNCHANGED <<initializing, init_task>>
       ELSE /\ init_calls' = [init_calls EXCEPT ![u].pc = "waiting"]
            /\ UNCHANGED <<initializing, init_task>>
    /\ UNCHANGED <<initialize_result, session_running, pending_requests,
                   transport_closed, client_sent_messages, server_messages,
                   delivered>>
    /\ UNCHANGED <<cvars, pvars>>

\* the handshake task starts the session, tracks the request and hands it to
\* transport.send; a send that raises tears the session down
DoInitializeSends(ok) ==
    /\ init_task.st = "new"
    /\ IF ok
       THEN /\ session_running' = TRUE
            /\ pending_requests' = pending_requests \cup {InitId}
            /\ client_sent_messages' = Append(client_sent_messages,
                                              "initialize")
            /\ init_task' = [init_task EXCEPT !.st = "awaiting"]
            /\ UNCHANGED transport_closed
       ELSE /\ session_running' = FALSE
            /\ pending_requests' = {}
            /\ transport_closed' = TRUE
            /\ init_task' = [st |-> "failed", val |-> InitError("transport_error")]
            /\ UNCHANGED client_sent_messages
    /\ UNCHANGED <<initializing, initialize_result, init_calls,
                   server_messages, delivered>>
    /\ UNCHANGED <<cvars, pvars>>

\* the server answers an initialize request it has not answered yet
ServerReplies(v) ==
    /\ Len(server_messages) < CountSent("initialize")
    /\ server_messages' =
          Append(server_messages,
                 [id |-> InitId,
                  result |-> InitializeResult(v, Len(server_messages) + 1)])
    /\ UNCHANGED <<initializing, initialize_result, session_running,
                   pending_requests, transport_closed, client_sent_messages,
                   init_task, init_calls, delivered>>
    /\ UNCHANGED <<cvars, pvars>>

\* the session receives a reply: it resolves the pending request of its id,
\* and a reply no request waits for is dropped
SessionReceives ==
    /\ delivered < Len(server_messages)
    /\ delivered' = delivered + 1
    /\ LET msg == server_messages[delivered + 1]
       IN  IF /\ session_running
              /\ msg.id \in pending_requests
              /\ init_task.st = "awaiting"
           THEN /\ pending_requests' = pending_requests \ {msg.id}
                /\ init_task' = [st |-> "got", val |-> msg.result]
           ELSE UNCHANGED <<pending_requests, init_task>>
    /\ UNCHANGED <<initializing, initialize_result, session_running,
                   transport_closed, client_sent_messages, init_calls,
                   server_messages>>
    /\ UNCHANGED <<cvars, pvars>>

\* the handshake task has the result: on a version mismatch it tears the
\* session down and fails; else it sends notifications/initialized and
\* caches the result; a send that raises tears the session down
DoInitializeChecks(ok) ==
    /\ init_task.st = "got"
    /\ IF ~VersionMatches(init_task.val)
       THEN /\ session_running' = FALSE
            /\ pending_requests' = {}
            /\ transport_closed' = TRUE
            /\ init_task' = [st |-> "failed",
                             val |-> InitError("Protocol version mismatch")]
            /\ UNCHANGED <<client_sent_messages, initialize_result>>
       ELSE IF ok
       THEN /\ client_sent_messages' = Append(client_sent_messages,
                                              "notifications/initialized")
            /\ initialize_result' = init_task.val
            /\ init_task' = [init_task EXCEPT !.st = "done"]
            /\ UNCHANGED <<session_running, pending_requests,
                           transport_closed>>
       ELSE /\ session_running' = FALSE
            /\ pending_requests' = {}
            /\ transport_closed' = TRUE
            /\ init_task' = [st |-> "failed", val |-> InitError("transport_error")]
            /\ UNCHANGED <<client_sent_messages, initialize_result>>
    /\ UNCHANGED <<initializing, init_calls, server_messages, delivered>>
    /\ UNCHANGED <<cvars, pvars>>

\* a timeout that fails the task and leaves the session as it is
DoInitializeTimesOutWithoutTeardown ==
    /\ init_task.st = "awaiting"
    /\ init_task' = [st |-> "failed", val |-> InitError("timeout")]
    /\ UNCHANGED <<initializing, initialize_result, session_running,
                   pending_requests, transport_closed, client_sent_messages,
                   init_calls, server_messages, delivered>>
    /\ UNCHANGED <<cvars, pvars>>

\* no reply within the timeout: the session is torn down and the task fails
DoInitializeTimesOut ==
    /\ init_task.st = "awaiting"
    /\ session_running' = FALSE
    /\ pending_requests' = {}
    /\ transport_closed' = TRUE
    /\ init_task' = [st |-> "failed", val |-> InitError("timeout")]
    /\ UNCHANGED <<initializing, initialize_result, client_sent_messages,
                   init_calls, server_messages, delivered>>
    /\ UNCHANGED <<cvars, pvars>>

\* a call that awaits the task resumes with the task's result or error; the
\* call that created the task clears _initializing as it leaves
InitializeResumes(u) ==
    /\ init_calls[u].pc \in {"owner", "waiting"}
    /\ init_task.st \in {"done", "failed"}
    /\ init_calls' = [init_calls EXCEPT
                         ![u] = [pc |-> IF init_task.st = "done"
                                        THEN "returned" ELSE "raised",
                                 res |-> init_task.val]]
    /\ initializing' = IF init_calls[u].pc = "owner" THEN "none"
                       ELSE initializing
    /\ UNCHANGED <<initialize_result, session_running, pending_requests,
                   transport_closed, client_sent_messages, init_task,
                   server_messages, delivered>>
    /\ UNCHANGED <<cvars, pvars>>

\* ------------------------------------------------ protocol types: the codec
\* from_protocol and to_protocol of the message types, after section 4.1 of
\* the specification and the wire objects and values of the protocol tests.
\* A wire object and a value hold a function from their keys to what the
\* keys hold: a field with no value is a key that is not there. A URI is the
\* sequence of its parts, so that equal sequences are equal byte for byte.

URIs ==
    {<<"https", "://", "example.com">>,
     <<"https", "://", "example.com", "/">>,
     <<"https", "://", "example.com", "/a">>,
     <<"http", "://", "example.com">>,
     <<"file", "://", "", "/path/to/file.txt">>,
     <<"data", ":", "text/plain;base64,SGVsbG8=">>,
     <<"custom-scheme", ":", "resource-id">>,
     <<"urn", ":", "isbn:1234">>,
     <<"not-a-uri">>}

\* what the validation of a string that is no URI gives
InvalidUri == <<>>

\* a canonicalization that ends every URI with "/"
CanonicalUriSlashesAll(u) ==
    IF Len(u) < Len(<<"scheme", ":", "rest">>) THEN InvalidUri
    ELSE IF u[Len(u)] = "/" THEN u
    ELSE Append(u, "/")

\* the validation of a uri field: a string without a scheme is rejected, an
\* http(s) URL that ends with its authority gets the path "/", every other
\* URI is kept as it is
CanonicalUri(u) ==
    IF Len(u) < Len(<<"scheme", ":", "rest">>) THEN InvalidUri
    ELSE IF /\ u[1] \in {"http", "https"}
            /\ u[2] = "://"
            /\ Len(u) = Len(<<"scheme", "://", "authority">>)
         THEN Append(u, "/")
    ELSE u

CanonicalUris == {CanonicalUri(u) : u \in URIs} \ {InvalidUri}

MessageTypes ==
    {"ListResourcesRequest", "ListToolsRequest", "SubscribeRequest",
     "ProgressNotification", "ListToolsResult", "Resource"}

MethodOf(t) ==
    CASE t = "ListResourcesRequest" -> "resources/list"
      [] t = "ListToolsRequest" -> "tools/list"
      [] t = "SubscribeRequest" -> "resources/subscribe"
      [] t = "ProgressNotification" -> "notifications/progress"
      [] t = "PingRequest" -> "ping"
      [] t = "CreateMessageRequest" -> "sampling/createMessage"
      [] t = "ListRootsRequest" -> "roots/list"
      [] OTHER -> ""

\* the unions of the types a server sends as requests and a client answers
\* with
ServerRequest == {"PingRequest", "CreateMessageRequest", "ListToolsRequest"}
ClientResult == {"EmptyResult", "CreateMessageResult", "ListRootsResult"}

\* the request type a result type is paired with
RequestOf(r) ==
    CASE r = "EmptyResult" -> "PingRequest"
      [] r = "CreateMessageResult" -> "CreateMessageRequest"
      [] r = "ListRootsResult" -> "ListRootsRequest"
      [] r = "ListToolsResult" -> "ListToolsRequest"
      [] OTHER -> ""

\* the keys a wire object of the type must hold, and those it may hold
RequiredKeys(t) ==
    CASE t = "SubscribeRequest" -> {"uri"}
      [] t = "ProgressNotification" -> {"progressToken", "progress"}
      [] t = "ListToolsResult" -> {"tools"}
      [] t = "Resource" -> {"uri", "name"}
      [] OTHER -> {}

OptionalKeys(t) ==
    CASE t \in {"ListResourcesRequest", "ListToolsRequest"} ->
            {"cursor", "_meta"}
      [] t = "SubscribeRequest" -> {"_meta"}
      [] t = "ProgressNotification" -> {"total", "message", "_meta"}
      [] t = "ListToolsResult" -> {"nextCursor", "_meta"}
      [] t = "Resource" -> {"mimeType", "size"}
      [] OTHER -> {}

\* the wire aliases: <<key on the wire, logical attribute>>
WireAliases ==
    {<<"mimeType", "mime_type">>, <<"size", "size_in_bytes">>,
     <<"nextCursor", "next_cursor">>, <<"progressToken", "progress_token">>,
     <<"_meta", "metadata">>}

ToLogical(k) ==
    IF \E a \in WireAliases : a[1] = k
    THEN (CHOOSE a \in WireAliases : a[1] = k)[2]
    ELSE k

\* a serialization under the logical attribute names
ToWireUnaliased(a) == a

ToWire(a) ==
    IF \E x \in WireAliases : x[2] = a
    THEN (CHOOSE x \in WireAliases : x[2] = a)[1]
    ELSE a

\* the _meta objects: the empty one and one that holds something
EmptyMeta == {}
Metas == {EmptyMeta, {<<"some", "nested", "value">>}}

Restrict(f, S) == [k \in S |-> f[k]]

\* what the keys of the wire objects hold
FullBody(uri, meta) ==
    ("cursor" :> "abc") @@ ("uri" :> uri) @@ ("name" :> "Example")
    @@ ("mimeType" :> "text/plain") @@ ("size" :> "1")
    @@ ("nextCursor" :> "next_page_token")
    @@ ("progressToken" :> "progress_token") @@ ("progress" :> "0.5")
    @@ ("total" :> "100") @@ ("message" :> "test")
    @@ ("tools" :> "search_files") @@ ("_meta" :> meta)

\* what the attributes of the values hold
FullAttrs(uri) ==
    ("cursor" :> "abc") @@ ("uri" :> uri) @@ ("name" :> "Example")
    @@ ("mime_type" :> "text/plain") @@ ("size_in_bytes" :> "1")
    @@ ("next_cursor" :> "next_page_token")
    @@ ("progress_token" :> "progress_token") @@ ("progress" :> "0.5")
    @@ ("total" :> "100") @@ ("message" :> "test")
    @@ ("tools" :> "search_files")
    @@ ("metadata" :> CHOOSE m \in Metas : m # EmptyMeta)

WireObject(t, body) ==
    [t |-> t, jsonrpc |-> "2.0", id |-> 1, method |-> MethodOf(t),
     body |-> body]

\* the wire objects with the right keys: every choice of the optional keys,
\* of the URI and of the _meta object
Wires ==
    UNION {{WireObject(t, Restrict(FullBody(u, m), RequiredKeys(t) \cup S)) :
              S \in SUBSET OptionalKeys(t), u \in URIs, m \in Metas} :
           t \in MessageTypes}

\* the values: every choice of the optional attributes; a value holds a
\* validated URI and metadata that is not empty
Values ==
    UNION {{[t |-> t, method |-> MethodOf(t),
             attrs |-> Restrict(FullAttrs(u),
                               {ToLogical(k) : k \in RequiredKeys(t) \cup S})] :
              S \in SUBSET OptionalKeys(t), u \in CanonicalUris} :
           t \in MessageTypes}

NoMsg == [t |-> "none"]
ValidationError ==
    [t |-> "ValidationError", method |-> "", attrs |-> [k \in {} |-> ""]]

\* from_protocol: the shape is validated, the URI validated and made
\* canonical, the keys become the logical attributes, an empty _meta gives
\* no metadata, and jsonrpc and id are not part of the value
Decode(w) ==
    LET keys == DOMAIN w.body
        kept == {k \in keys : ~(k = "_meta" /\ w.body[k] = EmptyMeta)}
    IN  IF \/ ~(RequiredKeys(w.t) \subseteq keys)
           \/ ~(keys \subseteq RequiredKeys(w.t) \cup OptionalKeys(w.t))
           \/ w.method # MethodOf(w.t)
           \/ ("uri" \in keys /\ CanonicalUri(w.body["uri"]) = InvalidUri)
        THEN ValidationError
        ELSE [t |-> w.t, method |-> w.method,
              attrs |-> [a \in {ToLogical(k) : k \in kept} |->
                           IF a = "uri" THEN CanonicalUri(w.body["uri"])
                           ELSE w.body[CHOOSE k \in kept :
                                          ToLogical(k) = a]]]

\* to_protocol: the attributes that hold a value under their wire keys
Encode(v) ==
    [t |-> v.t, method |-> v.method,
     body |-> [k \in {ToWire(a) : a \in DOMAIN v.attrs} |->
                 v.attrs[ToLogical(k)]]]

\* {"jsonrpc": "2.0", "id": 1, **protocol_data}
WithEnvelope(pd) ==
    [t |-> pd.t, jsonrpc |-> "2.0", id |-> 1, method |-> pd.method,
     body |-> pd.body]

\* from_protocol of the wire object at hand, or of what to_protocol gave
FromProtocol ==
    /\ \/ /\ p_dir = "wire"
          /\ p_step = 0
          /\ p_mid' = Decode(p_in)
          /\ UNCHANGED p_out
       \/ /\ p_dir = "value"
          /\ p_step = 1
          /\ p_out' = Decode(WithEnvelope(p_mid))
          /\ UNCHANGED p_mid
    /\ p_step' = p_step + 1
    /\ UNCHANGED <<p_dir, p_in, cvars, svars>>

\* to_protocol of the value at hand, or of what from_protocol accepted
ToProtocol ==
    /\ \/ /\ p_dir = "value"
          /\ p_step = 0
          /\ p_mid' = Encode(p_in)
          /\ UNCHANGED p_out
       \/ /\ p_dir = "wire"
          /\ p_step = 1
          /\ p_mid.t # "ValidationError"
          /\ p_out' = Encode(p_mid)
          /\ UNCHANGED p_mid
    /\ p_step' = p_step + 1
    /\ UNCHANGED <<p_dir, p_in, cvars, svars>>

\* ------------------------------------------------------------ specification
\* the coordinator and the session as constructed
InitCoordinatorAndSession ==
    /\ initializing = "none"
    /\ initialize_result = NoResult
    /\ session_running = FALSE
    /\ pending_requests = {}
    /\ transport_closed = FALSE
    /\ client_sent_messages = <<>>
    /\ init_task = NoTask
    /\ init_calls = [u \in Callers |-> NewCaller]
    /\ server_messages = <<>>
    /\ delivered = 0
    /\ loopTask = 0
    /\ lt = [t \in LoopIds |-> NewLoop]
    /\ clients = {}
    /\ inb = [c \in Clients |-> {}]
    /\ outb = [c \in Clients |-> {}]
    /\ h = <<>>
    /\ calls = <<>>
    /\ nt = [x \in NKeys |-> 0]
    /\ nIn = 0
    /\ ev = Internal

Init ==
    /\ InitCoordinatorAndSession
    /\ p_dir = "none"
    /\ p_in = NoMsg
    /\ p_mid = NoMsg
    /\ p_out = NoMsg
    /\ p_step = 0

Next ==
    \/ Start
    \/ Stop
    \/ \E t \in LoopIds : LoopCancelled(t)
    \/ \E t \in LoopIds, how \in {"stream_error", "stream_end"} :
          StreamEnds(t, how)
    \/ \E t \in LoopIds : LoopDoneCallbacks(t)
    \/ \E t \in LoopIds, c \in Clients, p \in Payloads : Deliver(t, c, p)
    \/ \E t \in LoopIds, ok \in BOOLEAN : LoopSendDone(t, ok)
    \/ \E k \in DOMAIN h : HandlerReturnsResult(k)
    \/ \E k \in DOMAIN h, code \in ErrorCodes : HandlerReturnsError(k, code)
    \/ \E k \in DOMAIN h : HandlerRaises(k)
    \/ \E k \in DOMAIN h : HandlerSendDone(k)
    \/ \E k \in DOMAIN h : HandlerSendFails(k)
    \/ \E k \in DOMAIN h, ok \in BOOLEAN : HandlerErrSendDone(k, ok)
    \/ \E k \in DOMAIN h : HandlerDoneCallback(k)
    \/ \E c \in Clients : SendRequest(c)
    \/ \E i \in DOMAIN calls : SendRequestSent(i)
    \/ \E i \in DOMAIN calls : SendRequestSendFails(i)
    \/ \E i \in DOMAIN calls : SendRequestReturns(i)
    \/ \E i \in DOMAIN calls : SendRequestTimeout(i)
    \/ \E i \in DOMAIN calls : SendRequestTimeoutRaised(i)
    \/ \E i \in DOMAIN calls : CallerCancelled(i)
    \/ \E c \in Clients : SendNotification(c)
    \/ \E x \in NKeys, raises \in BOOLEAN :
          NotificationHandlerRuns(x[1], x[2], x[3], raises)

Spec == Init /\ [][Next]_vars

\* the client session on its own
SessionNext ==
    \/ \E u \in Callers : Initialize(u)
    \/ \E ok \in BOOLEAN : DoInitializeSends(ok)
    \/ \E v \in Versions : ServerReplies(v)
    \/ SessionReceives
    \/ \E ok \in BOOLEAN : DoInitializeChecks(ok)
    \/ DoInitializeTimesOut
    \/ \E u \in Callers : InitializeResumes(u)

SessionSpec == Init /\ [][SessionNext]_vars

\* the protocol types on their own: a wire object or a value is drawn, and
\* converted there and back; or a type is drawn that a request of the server
\* may have
CodecInit ==
    /\ InitCoordinatorAndSession
    /\ \/ p_dir = "wire" /\ p_in \in Wires
       \/ p_dir = "value" /\ p_in \in Values
       \/ p_dir = "server_request" /\ p_in \in {[t |-> t] : t \in ServerRequest}
    /\ p_mid = NoMsg
    /\ p_out = NoMsg
    /\ p_step = 0

CodecNext == FromProtocol \/ ToProtocol

CodecSpec == CodecInit /\ [][CodecNext]_vars

\* the coordinator with a request in flight: start() has run, the request
\* with id 1 of client A was accepted, its handler task is running and
\* tracked; the messages that follow are counted from here
InFlightInit ==
    /\ initializing = "none"
    /\ initialize_result = NoResult
    /\ session_running = FALSE
    /\ pending_requests = {}
    /\ transport_closed = FALSE
    /\ client_sent_messages = <<>>
    /\ init_task = NoTask
    /\ init_calls = [u \in Callers |-> NewCaller]
    /\ server_messages = <<>>
    /\ delivered = 0
    /\ p_dir = "none"
    /\ p_in = NoMsg
    /\ p_mid = NoMsg
    /\ p_out = NoMsg
    /\ p_step = 0
    /\ loopTask = 1
    /\ lt = [t \in LoopIds |->
               IF t = 1 THEN [NewLoop EXCEPT !.st = "next"] ELSE NewLoop]
    /\ clients = {"A"}
    /\ inb = [c \in Clients |->
                IF c = "A" THEN {[rid |-> 1, task |-> 1]} ELSE {}]
    /\ outb = [c \in Clients |-> {}]
    /\ h = <<[NewHandlerTask("A", 1) EXCEPT !.cb = TRUE]>>
    /\ calls = <<>>
    /\ nt = [x \in NKeys |-> 0]
    /\ nIn = 1
    /\ ev = ReqEv("A", 1, "tools/list", NoFrame)

\* the inbound side from there on: the loop, the handler tasks and their
\* done-callbacks, the notification handler tasks
InFlightNext ==
    \/ \E t \in LoopIds, c \in Clients, p \in Payloads : Deliver(t, c, p)
    \/ \E t \in LoopIds, ok \in BOOLEAN : LoopSendDone(t, ok)
    \/ \E k \in DOMAIN h : HandlerReturnsResult(k)
    \/ \E k \in DOMAIN h, code \in ErrorCodes : HandlerReturnsError(k, code)
    \/ \E k \in DOMAIN h : HandlerRaises(k)
    \/ \E k \in DOMAIN h : HandlerSendDone(k)
    \/ \E k \in DOMAIN h : HandlerSendFails(k)
    \/ \E k \in DOMAIN h, ok \in BOOLEAN : HandlerErrSendDone(k, ok)
    \/ \E k \in DOMAIN h : HandlerDoneCallback(k)
    \/ \E x \in NKeys, raises \in BOOLEAN :
          NotificationHandlerRuns(x[1], x[2], x[3], raises)

InFlightSpec == InFlightInit /\ [][InFlightNext]_vars

\* ===================================================================== claims
TablesEmpty == \A c \in Clients : inb[c] = {} /\ outb[c] = {}
StopReturned == ev.op = "stop" /\ ev.out = "returned"

\* C1: in the state in which a call of stop() has returned, the inbound and
\* the outbound request tables are empty for every client.
C1_TablesEmptyAfterStop == StopReturned => TablesEmpty

\* C2: no outbound entry belongs to a send_request call that has exited: the
\* entry registered under (client_id, request_id) is gone when the call
\* exits, whether by a response, an error response, a timeout, the caller's
\* cancellation or a failure of transport.send.
C2_OutboundEntryRemovedOnExit ==
    \A c \in Clients : \A i \in outb[c] : calls[i].st # "done"

\* a send_request call has just exited because transport.send raised
C2_Witness ==
    /\ ev.op = "send_request"
    /\ ev.out = "raised_send_error"
    /\ calls[ev.who].st = "done"

C4_RefusedWhenNotRunning ==
    [][(/\ ~Running
        /\ ev'.op \in {"send_request", "send_notification"}
        /\ ev'.out \in {"accepted", "not_running"})
          => /\ ev'.out = "not_running"
             /\ ev'.frame = NoFrame
             /\ UNCHANGED <<clients, inb, outb, calls>>]_vars

\* send_request was refused while clients are still registered
C4_Witness ==
    /\ ev.op = "send_request"
    /\ ev.out = "not_running"
    /\ clients # {}

CleanupDone ==
    /\ clients' = {}
    /\ \A c \in Clients : inb'[c] = {} /\ outb'[c] = {}
    /\ \A c \in Clients : \A e \in inb[c] : h'[e.task].st \notin LiveSt
    /\ \A c \in Clients : \A i \in outb[c] :
         /\ calls'[i].fut # "pending"
         /\ calls[i].fut = "pending" => calls'[i].fut = "cancel_error"

C7_TeardownCancelsEverything ==
    [][\A c \in Clients :
          (c \in clients /\ c \notin clients')
             => /\ \A i \in DOMAIN calls :
                     (calls[i].c = c /\ calls[i].fut = "pending")
                        => calls'[i].fut = "cancel_error"
                /\ \A k \in DOMAIN h :
                     (h[k].c = c /\ h[k].st \in LiveSt)
                        => h'[k].st \notin LiveSt]_vars

C9_HandlerExceptionAnswered ==
    [][/\ (ev'.op = "handler" /\ ev'.out = "raised")
            => /\ h[ev'.who].st = "run"
               /\ ev'.frame =
                    ErrorFrame(h[ev'.who].c, h[ev'.who].rid, "INTERNAL_ERROR",
                               "Problem handling request", h[ev'.who].rid)
               /\ UNCHANGED <<loopTask, lt, clients, inb, outb, calls>>
       /\ (ev'.op = "handler" /\ ev'.out = "error_sent")
            => /\ h[ev'.who].st = "errsend"
               /\ h'[ev'.who].st \notin LiveSt
               /\ ev'.frame = NoFrame
               /\ UNCHANGED <<loopTask, lt, clients, inb, outb, calls>>
       /\ \A k \in DOMAIN h :
            (h[k].st = "done" /\ h'[k].st = "fin")
               => \A e \in inb'[h[k].c] : e.rid # h[k].rid]_vars

\* a handler has just raised and its client is registered
C9_Witness ==
    /\ ev.op = "handler"
    /\ ev.out = "raised"
    /\ h[ev.who].st = "errsend"
    /\ h[ev.who].c \in clients

\* C10: an Error a handler returns is handed to the transport as an error
\* response with the request's id, and the step of the handler task that
\* follows drops the handler's client exactly when the code of the Error is
\* PROTOCOL_VERSION_MISMATCH.
C10_DisconnectIffVersionMismatch ==
    [][\A k \in DOMAIN h :
          /\ (ev'.op = "handler" /\ ev'.who = k /\ ev'.out = "returned"
                 /\ h'[k].res = "error")
               => ev'.frame =
                    ErrorFrame(h[k].c, h[k].rid, h'[k].code, "handler", 0)
          /\ (ev'.op = "handler" /\ ev'.who = k /\ h[k].st = "send"
                 /\ h[k].res = "error" /\ h[k].c \in clients)
               => (ShouldDisconnectForError(h[k].code)
                      <=> h[k].c \notin clients')]_vars

C12_FalseChangesNothing ==
    [][(ev'.op = "cancel" /\ ev'.out = "false")
          => UNCHANGED <<clients, inb, outb, h, calls>>]_vars

\* C12 amended: cancel_request_from_client(c, r) returns False and changes
\* nothing when there is no inbound entry for (c, r); when there is one whose
\* handler task is done it removes the entry, changes nothing else and
\* returns False; otherwise it removes the entry, cancels the handler task
\* and returns True. No entry for (c, r) is left after a call.
C12_CancelRequestFromClient ==
    [][ev'.op = "cancel"
          => LET c == ev'.c
                 es == {e \in inb[ev'.c] : e.rid = ev'.who}
             IN  /\ UNCHANGED <<clients, outb, calls, loopTask, lt>>
                 /\ inb' = [inb EXCEPT ![c] = @ \ es]
                 /\ es = {} => (ev'.out = "false" /\ h' = h)
                 /\ \A e \in es :
                      IF h[e.task].st \in LiveSt
                      THEN /\ ev'.out = "true"
                           /\ h' = [h EXCEPT ![e.task] = Ended(@)]
                      ELSE /\ ev'.out = "false"
                           /\ h' = h]_vars

\* cancel_request_from_client has just returned False for a request whose
\* handler task was done and whose entry it removed
C12_Witness ==
    /\ ev.op = "cancel"
    /\ ev.out = "false"
    /\ \E k \in DOMAIN h :
         /\ h[k].c = ev.c /\ h[k].rid = ev.who /\ h[k].st = "done"
         /\ k \notin TasksOf(inb[ev.c])

\* C13: no inbound notification makes the coordinator hand a frame to the
\* transport: routing one sends nothing, leaves the loop task and the tables
\* alone, and spawns a handler task only when the parser knows the method and
\* a handler is registered for it; the handler task, returning or raising,
\* sends nothing and leaves the loop task alone.
C13_NotificationsNeverAnswered ==
    [][/\ ev'.op = "notification"
            => /\ ev'.frame = NoFrame
               /\ UNCHANGED <<loopTask, clients, inb, outb, h, calls>>
               /\ \A t \in LoopIds : LoopAlive(t) => lt'[t] = lt[t]
               /\ (ev'.out \notin ParserNotifications \cap NotificationHandlers)
                     => nt' = nt
       /\ ev'.op \in {"nhandler", "cancel"}
            => /\ ev'.frame = NoFrame
               /\ UNCHANGED <<loopTask, lt>>
       /\ ev'.op = "nhandler"
            => UNCHANGED <<clients, inb, outb, h, calls>>]_vars

\* the handler task of a notification has just raised while the coordinator
\* is running
C13_Witness ==
    /\ ev.op = "nhandler"
    /\ ev.out = "raised"
    /\ Running

\* C14: the completion handle of a send_request to client c with id i gets
\* a Result or an Error only by a response frame that c itself sent with id
\* i, the value is the parsed frame and no other call is touched; a frame
\* from another client carrying that id leaves it pending; and send_request
\* returns the value its handle holds.
C14_ResponseResolvesOwnWaiter ==
    [][/\ \A i \in DOMAIN calls :
            (calls[i].fut = "pending" /\ calls'[i].fut \in {"result", "error"})
               => /\ ev'.op = "response"
                  /\ ev'.c = calls[i].c
                  /\ ev'.who = Uuid(i)
                  /\ calls'[i].fut = ev'.out
                  /\ i \in outb[calls[i].c]
                  /\ \A j \in DOMAIN calls \ {i} : calls'[j] = calls[j]
       /\ ev'.op = "response"
            => /\ \E i \in outb[ev'.c] : Uuid(i) = ev'.who
               /\ UNCHANGED <<loopTask, clients, inb, h, nt>>
       /\ (ev'.op = "send_request" /\ ev'.out \in {"result", "error"})
            => calls[ev'.who].fut = ev'.out]_vars

\* send_request has just returned the Error that its client answered with
C14_Witness ==
    /\ ev.op = "send_request"
    /\ ev.out = "error"
    /\ calls[ev.who] = Over
    /\ Running

\* C15: a completion handle is resolved at most once: once it holds a value
\* (a Result, an Error, the cancellation error of a teardown) or was
\* cancelled by the timeout, no response, timeout or teardown changes what
\* it holds; a response that finds its handle resolved already changes no
\* handle and leaves the message loop as it was.
C15_HandleResolvedAtMostOnce ==
    [][/\ \A i \in DOMAIN calls :
            calls[i].fut # "pending"
               => calls'[i].fut \in {calls[i].fut, "released"}
       /\ (/\ ev'.op = "response"
           /\ \A i \in outb[ev'.c] :
                Uuid(i) = ev'.who => calls[i].fut # "pending")
            => UNCHANGED <<calls, loopTask, lt, clients, inb, h>>]_vars

\* a response has just arrived for a request whose handle the timeout had
\* cancelled and whose entry was still tracked; the coordinator is running
C15_Witness ==
    /\ ev.op = "response"
    /\ Running
    /\ \E i \in DOMAIN calls :
         /\ Uuid(i) = ev.who
         /\ calls[i].c = ev.c
         /\ calls[i].fut = "cancelled"
         /\ calls[i].st = "tnotify"

\* C16: a request from client c whose id already has an inbound entry for c
\* is answered with an error response carrying that id, starts no handler
\* task, and leaves the inbound table as it was.
C16_DuplicateIdRejected ==
    [][(ev'.op = "request" /\ HasRequestFromClient(CM, ev'.c, ev'.who))
          => /\ ev'.frame.kind = "error"
             /\ ev'.frame.id = ev'.who
             /\ h' = h
             /\ inb' = inb]_vars

\* C17: no handler runs for an unregistered client: when the handler task of
\* a notification has run, or a request was dispatched to a handler, the
\* client it came from is registered.
C17_HandlersOnlyForRegistered ==
    /\ ev.op \in {"nhandler", "cancel"} => ev.c \in clients
    /\ (ev.op = "request" /\ HasHandler(ev.out)) => ev.c \in clients

\* client d's registration, inbound entries, handler tasks, outbound entries
\* and pending calls are the same after the step
C18_Untouched(d) ==
    /\ (d \in clients') = (d \in clients)
    /\ inb'[d] = inb[d]
    /\ outb'[d] = outb[d]
    /\ \A k \in DOMAIN h : h[k].c = d => h'[k] = h[k]
    /\ \A i \in DOMAIN calls : calls[i].c = d => calls'[i] = calls[i]

\* C18: whatever a message of one client or a handler task of one client
\* does (an error answer to an unparsable or unserved request, a handler
\* that raises, the teardown of that client after a disconnect code, a
\* cancellation), every other client's registration, inbound entries,
\* handler tasks and outbound entries stay as they were.
C18_ClientIsolation ==
    [][\A c \in Clients :
          (\/ /\ ev'.op \in {"request", "notification", "response",
                             "cancel", "nhandler"}
              /\ ev'.c = c
           \/ /\ ev'.op = "handler"
              /\ h[ev'.who].c = c)
             => \A d \in Clients \ {c} : C18_Untouched(d)]_vars

\* client A has just been torn down by the disconnect code of its handler's
\* Error while client B is registered with a handler task in flight
C18_Witness ==
    /\ ev.op = "handler"
    /\ ev.out = "sent"
    /\ clients = {"B"}
    /\ inb["B"] # {}
    /\ \E k \in DOMAIN h : h[k].c = "B" /\ h[k].st = "run"

\* the frames of one complete handshake, in their order on the wire
C19_Handshake == <<"initialize", "notifications/initialized">>

\* C19: initialize() is idempotent: whatever the number of concurrent and
\* subsequent calls, the wire holds at most one initialize request and at
\* most one notifications/initialized, in that order; every call that
\* returned got the one cached result, after both frames were sent; and once
\* calls have returned and none is pending, no initialization is in
\* progress and the pending-requests table is empty.
C19_InitializeIdempotent ==
    /\ CountSent("initialize") <= 1
    /\ CountSent("notifications/initialized") <= 1
    /\ Len(client_sent_messages) <= Len(C19_Handshake)
    /\ \A k \in DOMAIN client_sent_messages :
         client_sent_messages[k] = C19_Handshake[k]
    /\ \A u \in Callers :
         init_calls[u].pc = "returned"
            => /\ init_calls[u].res = initialize_result
               /\ init_calls[u].res # NoResult
               /\ client_sent_messages = C19_Handshake
               /\ pending_requests = {}
    /\ (/\ \E u \in Callers : init_calls[u].pc = "returned"
        /\ \A u \in Callers : init_calls[u].pc \notin {"owner", "waiting"})
         => initializing = "none"

\* every caller's initialize() has returned
C19_Witness ==
    /\ \A u \in Callers : init_calls[u].pc = "returned"
    /\ initializing = "none"
    /\ client_sent_messages = C19_Handshake

\* the error of a protocol version mismatch
C20_Mismatch == InitError("Protocol version mismatch")

\* C20: when the result's protocolVersion differs from the client's, the
\* handshake fails with the protocol-version-mismatch error, and from then
\* on the transport is closed, the session is not running, no result is
\* cached, the pending-requests table is empty and no
\* notifications/initialized is on the wire; notifications/initialized is
\* sent only after a result with the client's version was received, and
\* only such a result is cached.
C20_VersionMismatchTearsDown ==
    /\ ((init_task.st = "failed" /\ init_task.val = C20_Mismatch)
        \/ \E u \in Callers : /\ init_calls[u].pc = "raised"
                              /\ init_calls[u].res = C20_Mismatch)
         => /\ transport_closed
            /\ ~session_running
            /\ initialize_result = NoResult
            /\ pending_requests = {}
            /\ CountSent("notifications/initialized") = 0
    /\ (init_task.st \in {"got", "done"}
        /\ init_task.val.protocolVersion # PROTOCOL_VERSION)
         => CountSent("notifications/initialized") = 0
    /\ CountSent("notifications/initialized") > 0
         => \E k \in 1..delivered :
              /\ server_messages[k].result.protocolVersion = PROTOCOL_VERSION
              /\ initialize_result \in {NoResult, server_messages[k].result}
    /\ initialize_result # NoResult
         => initialize_result.protocolVersion = PROTOCOL_VERSION

\* initialize() has just failed with the protocol-version-mismatch error
C20_Witness ==
    /\ \E u \in Callers : /\ init_calls[u].pc = "raised"
                          /\ init_calls[u].res = C20_Mismatch
    /\ client_sent_messages = <<"initialize">>
    /\ transport_closed

\* the errors of a handshake that fails before a result is accepted
C21_Errors == {InitError("timeout"), InitError("transport_error")}

\* C21: when the handshake fails by timeout or because transport.send
\* raises, every call of initialize() that awaited it raises that error, and
\* from the failure on the transport is closed, the session is not running,
\* no result is cached, no notifications/initialized is on the wire and the
\* pending-requests table is empty.
C21_FailureTearsDown ==
    /\ (init_task.st = "failed" /\ init_task.val \in C21_Errors)
         => /\ transport_closed
            /\ ~session_running
            /\ initialize_result = NoResult
            /\ pending_requests = {}
            /\ CountSent("notifications/initialized") = 0
    /\ \A u \in Callers :
         init_calls[u].pc = "raised"
            => /\ init_task.st = "failed"
               /\ init_calls[u].res = init_task.val
               /\ init_calls[u].res.err # ""
    /\ \A u \in Callers :
         (init_calls[u].pc \in {"returned", "raised"}
          /\ init_task.st = "failed") => init_calls[u].pc = "raised"

\* initialize() has just raised the timeout error, the request having been
\* sent and never answered
C21_Witness ==
    /\ \E u \in Callers : /\ init_calls[u].pc = "raised"
                          /\ init_calls[u].res = InitError("timeout")
    /\ client_sent_messages = <<"initialize">>
    /\ server_messages = <<>>

C22_Canonical(w) ==
    /\ "_meta" \in DOMAIN w.body => w.body["_meta"] # EmptyMeta
    /\ "uri" \in DOMAIN w.body => CanonicalUri(w.body["uri"]) = w.body["uri"]

\* what to_protocol gave holds wire keys only and no empty _meta
C22_WireKeysOnly(pd) ==
    /\ DOMAIN pd.body \subseteq RequiredKeys(pd.t) \cup OptionalKeys(pd.t)
    /\ "_meta" \in DOMAIN pd.body => pd.body["_meta"] # EmptyMeta

C23_Expected ==
    {<<<<"https", "://", "example.com">>,
       <<"https", "://", "example.com", "/">>>>,
     <<<<"file", "://", "", "/path/to/file.txt">>,
       <<"file", "://", "", "/path/to/file.txt">>>>,
     <<<<"data", ":", "text/plain;base64,SGVsbG8=">>,
       <<"data", ":", "text/plain;base64,SGVsbG8=">>>>,
     <<<<"custom-scheme", ":", "resource-id">>,
       <<"custom-scheme", ":", "resource-id">>>>,
     <<<<"urn", ":", "isbn:1234">>, <<"urn", ":", "isbn:1234">>>>}

\* C23: a Resource made from a wire object holds the URI with a "/" added
\* when it is an http(s) URL that ends with its authority, and the very URI
\* it was given otherwise (file, data, urn, custom schemes, http(s) URLs
\* with a path); a string that is no URI is rejected with a validation
\* error; and the URI written back to the wire is the canonical one, which
\* canonicalization leaves as it is.
C23_UriCanonicalization ==
    (p_dir = "wire" /\ p_in.t = "Resource" /\ p_step >= 1)
       => LET u == p_in.body["uri"]
          IN  /\ u = <<"not-a-uri">> <=> p_mid.t = "ValidationError"
              /\ p_mid.t # "ValidationError"
                   => /\ \A e \in C23_Expected :
                           e[1] = u => p_mid.attrs["uri"] = e[2]
                      /\ p_mid.attrs["uri"] \in {u, Append(u, "/")}
                      /\ p_mid.attrs["uri"] # u
                           <=> /\ u[1] \in {"http", "https"}
                               /\ Len(u) = Len(<<"scheme", "://", "host">>)
                      /\ CanonicalUri(p_mid.attrs["uri"]) = p_mid.attrs["uri"]
                      /\ p_step = 2 => p_out.body["uri"] = p_mid.attrs["uri"]

\* a Resource was made from "https://example.com" and written to the wire
C23_Witness ==
    /\ p_dir = "wire"
    /\ p_in.t = "Resource"
    /\ p_step = 2
    /\ p_in.body["uri"] = <<"https", "://", "example.com">>
    /\ p_out.body["uri"] = <<"https", "://", "example.com", "/">>

\* C24: the server-to-client request types are exactly the requests with the
\* methods ping, sampling/createMessage and roots/list, and every result
\* type a client answers with is paired with one of these requests.
C24_ServerRequestTypes ==
    /\ p_dir = "server_request"
         => MethodOf(p_in.t) \in {"ping", "sampling/createMessage",
                                  "roots/list"}
    /\ {MethodOf(t) : t \in ServerRequest}
          = {"ping", "sampling/createMessage", "roots/list"}
    /\ \A r \in ClientResult : RequestOf(r) \in ServerRequest

\* C25: an inbound entry exists exactly for the handler tasks that have not
\* terminated: every handler task that is alive has exactly one entry in the
\* table of its client, and every entry belongs to a task that is alive or
\* whose done-callback is about to remove it.
C25_InboundEntryIffLive ==
    /\ \A k \in DOMAIN h :
         h[k].st \in LiveSt
            => Cardinality({e \in inb[h[k].c] : e.task = k}) = 1
    /\ \A c \in Clients : \A e \in inb[c] :
         /\ h[e.task].st \in LiveSt \cup {"done"}
         /\ h[e.task].c = c
         /\ h[e.task].rid = e.rid

\* C26: an outbound entry exists exactly for the completion handles that
\* are unresolved: every entry belongs to a call of its client whose handle
\* is pending, and every call whose handle is pending has its entry.
C26_OutboundEntryIffUnresolved ==
    /\ \A c \in Clients : \A i \in outb[c] :
         /\ calls[i].c = c
         /\ calls[i].fut = "pending"
    /\ \A i \in DOMAIN calls :
         calls[i].fut = "pending" => i \in outb[calls[i].c]

\* C27: at most one inbound loop task is alive, and running is true exactly
\* when a loop task is alive, whatever the interleaving of start(), stop() and
\* the loop ending by itself.
C27_OneLoopRunningIffAlive ==
    /\ Cardinality({t \in LoopIds : LoopAlive(t)}) <= 1
    /\ Running <=> \E t \in LoopIds : LoopAlive(t)

\* C28: an exception raised while one inbound message is processed is caught
\* by the loop: when tracking the request fails, and when the send of an
\* error response returns or raises, the loop task is alive and about to read
\* the next message, no loop task is replaced, and a running coordinator is
\* still running.
C28_TrackingRaised ==
    /\ Len(h') = Len(h) + 1
    /\ ~h'[Len(h')].cb

C28_LoopSendOver(t) ==
    /\ lt[t].st = "send"
    /\ ~lt[t].cancel
    /\ lt'[t].st # "send"

C28_LoopSurvivesException ==
    [][/\ C28_TrackingRaised
          => /\ \A t \in LoopIds : LoopAlive(t) => lt'[t].st = lt[t].st
             /\ loopTask' = loopTask
             /\ Running => Running'
       /\ \A t \in LoopIds :
            C28_LoopSendOver(t)
               => /\ lt'[t].st = "next"
                  /\ loopTask' = loopTask
                  /\ Running => Running']_vars

C28_Witness ==
    /\ ev.op = "request"
    /\ Len(h) > 1
    /\ h[Len(h)] = NewHandlerTask(ev.c, ev.who)
    /\ \E e \in inb[ev.c] : e.rid = ev.who /\ e.task # Len(h)
    /\ Running
    /\ lt[loopTask].st = "next"

\* C29: handler execution is not serialized: a handler task that is running
\* can return whatever the handler tasks of earlier requests are doing, and
\* the step in which a handler returns is the step that hands its response,
\* carrying its client and request id, to the transport, so that responses
\* reach the transport in the order in which the handlers complete.
C29_HandlersNotSerialized ==
    /\ \A k \in DOMAIN h :
         h[k].st = "run" => ENABLED HandlerReturnsResult(k)
    /\ (ev.op = "handler" /\ ev.out = "returned")
          => /\ h[ev.who].st = "send"
             /\ ev.frame.kind \in {"response", "error"}
             /\ ev.frame.c = h[ev.who].c
             /\ ev.frame.id = h[ev.who].rid

\* the response of a later request of a client has been sent while the
\* handler of an earlier request of that client is still running
C29_Witness ==
    /\ ev.op = "handler"
    /\ ev.out = "sent"
    /\ \E j \in DOMAIN h :
         /\ j < ev.who
         /\ h[j].st = "run"
         /\ h[j].cb
         /\ \E e \in inb[h[j].c] : e.task = j
         /\ h[ev.who].st \notin LiveSt

\* C30: inbound messages are routed in the order the transport delivers them:
\* the step in which a message is taken from the stream is taken by a loop
\* task that is not inside the routing of an earlier message, and that same
\* step classifies and routes the message: a handler task is spawned for a
\* request that has a handler, an error response is handed to the transport
\* for one that has none, the entry that a response matches is removed and
\* its handle, if still pending, resolved; the loop task is then suspended
\* exactly when it handed a frame to the transport.
C30_Routed ==
    /\ nIn' = nIn + 1
    /\ ev'.op \in {"request", "response", "notification"}

C30_DispatchedInDeliveryOrder ==
    [][C30_Routed
         => /\ \E t \in LoopIds :
                 /\ lt[t].st = "next"
                 /\ ~lt[t].cancel
                 /\ lt' = [lt EXCEPT ![t].st = IF ev'.frame = NoFrame
                                               THEN "next" ELSE "send"]
            /\ ev'.op = "request"
                 => IF ParseRequest(ev'.out) = "ok" /\ HasHandler(ev'.out)
                    THEN /\ Len(h') = Len(h) + 1
                         /\ h'[Len(h')].st = "run"
                         /\ h'[Len(h')].c = ev'.c
                         /\ h'[Len(h')].rid = ev'.who
                         /\ ev'.frame = NoFrame
                    ELSE /\ h' = h
                         /\ ev'.frame.kind = "error"
                         /\ ev'.frame.c = ev'.c
                         /\ ev'.frame.id = ev'.who
            /\ ev'.op = "response"
                 => \E i \in outb[ev'.c] :
                      /\ Uuid(i) = ev'.who
                      /\ calls[i].fut = "pending" => calls'[i].fut = ev'.out
                      /\ i \notin outb'[ev'.c]]_vars

\* two requests of one client have been routed one after the other: the
\* handler task of the second has just been spawned and tracked behind the
\* task of the first
C30_Witness ==
    /\ ev.op = "request"
    /\ Len(h) = 2
    /\ h[1].c = ev.c
    /\ h[2].c = ev.c
    /\ h[1].rid # h[2].rid
    /\ h[2].rid = ev.who
    /\ h[2].st = "run"
    /\ \E e \in inb[ev.c] : e.task = 2 /\ e.rid = ev.who
    /\ \E e \in inb[ev.c] : e.task = 1

\* C31: at most one response frame is handed to the transport for an inbound
\* request: a handler task hands a response or error frame only while it has
\* handed none yet, that is while its handler is still running, and the frame
\* carries the client and the id of its request.
C31_AtMostOneResponse ==
    [][(ev'.op = "handler" /\ ev'.frame # NoFrame)
          => /\ h[ev'.who].st = "run"
             /\ ev'.frame.c = h[ev'.who].c
             /\ ev'.frame.id = h[ev'.who].rid]_vars

\* C32: the done-callback of a handler task removes only the entry of its own
\* task: every handler task that was tracked and is still alive has its entry
\* in the table of its client, also when an earlier task of the same client
\* and request id was cancelled and its done-callback runs afterwards.
C32_CallbackRemovesOwnEntryOnly ==
    \A k \in DOMAIN h :
      (h[k].st \in LiveSt /\ h[k].cb)
         => \E e \in inb[h[k].c] : e.task = k /\ e.rid = h[k].rid

\* the request in flight of the second specification is a state of the first
C32_InFlightReached ==
    /\ loopTask = 1
    /\ lt[1] = [NewLoop EXCEPT !.st = "next"]
    /\ clients = {"A"}
    /\ inb["A"] = {[rid |-> 1, task |-> 1]}
    /\ h = <<[NewHandlerTask("A", 1) EXCEPT !.cb = TRUE]>>
    /\ ev = ReqEv("A", 1, "tools/list", NoFrame)

====
